---- MODULE Spec2Model ----
(***************************************************************************)
(* Model of generate_waveform.py: the pipeline of main (fingerprint,       *)
(* cache lookup, transcode, decode, cache store, downsample, render,       *)
(* cleanup), the block-averaging of downsample_audio and the fork-join     *)
(* drawing of plot_waveform.                                               *)
(*                                                                         *)
(* Three specifications share the module:                                  *)
(*   Spec      one run of main, from the input-exists check to exit        *)
(*   SpecDown  downsample_audio applied to bounded sample sequences        *)
(*   SpecPlot  plot_waveform, one step per statement group / thread event  *)
(***************************************************************************)
EXTENDS Integers, Sequences, FiniteSets, TLC

VARIABLES
    \* ---- main: program variables
    input_path,     \* the path typed by the user (dir, stem, ext)
    wav_path,       \* path handed to the decoder / removed by cleanup
    cache_file,     \* "None" or the cache key derived from the fingerprint
    audio_array,    \* [src, good, len]
    duration,       \* [src, good]
    frames,         \* [src, good]
    cache_hit,
    series,         \* result of downsample_audio inside main: [src, good, len]
    pc,             \* position of main
    outcome,        \* "running", "success", "exit1" (sys.exit(1)), "exception"
    \* ---- main: environment
    fs,             \* files present on disk (cache entry excluded)
    cacheContent,   \* what the cache entry of this fingerprint holds
    \* ---- main: history
    fs0,            \* files present before the run
    cache0,         \* cache entry before the run
    hist,           \* sequence of pipeline steps performed
    createdTemp,    \* the transcoder of this run wrote temp_waveform.wav
    removed,        \* files removed by the cleanup step
    entryAtLookup,  \* the cache entry read by the lookup ("unread" if none)
    sampwidth,      \* sample width read from the WAV header (0: not read)
    hashFailed,     \* file_hash returned None
    writeFailed,    \* writing the cache entry raised
    removeFailed,   \* os.remove raised in cleanup
    fault,          \* the failure that ended the pipeline, "none" if none
    imageWritten,   \* savefig wrote waveform.svg
    \* ---- downsample_audio
    ds_pc, ds_in, ds_duration, ds_frames, ds_max_points, ds_factor, ds_kept,
    ds_out, ds_time,
    \* ---- plot_waveform
    pl_pc, pl_len, pl_colors, pl_ranges, pl_threads, pl_log, pl_started,
    pl_joined, pl_saved

mainVars == <<input_path, wav_path, cache_file, audio_array, duration, frames,
              cache_hit, series, pc, outcome, fs, cacheContent, fs0, cache0,
              hist, createdTemp, removed, entryAtLookup, sampwidth, hashFailed,
              writeFailed, removeFailed, fault, imageWritten>>

dsVars == <<ds_pc, ds_in, ds_duration, ds_frames, ds_max_points, ds_factor,
            ds_kept, ds_out, ds_time>>

plVars == <<pl_pc, pl_len, pl_colors, pl_ranges, pl_threads, pl_log, pl_started,
            pl_joined, pl_saved>>

vars == <<mainVars, dsVars, plVars>>

----------------------------------------------------------------------------
(* Bounds *)

MaxFrames == 4      \* longest decoded sample sequence in a run of main
MaxLen == 5         \* longest sample sequence given to downsample_audio
MaxPoints == 3      \* largest max_points given to downsample_audio
MaxSmallN == 4      \* small series lengths given to plot_waveform: 1..MaxSmallN+1
MaxOver == 2        \* segment counts above the thread threshold: up to Threshold+MaxOver

----------------------------------------------------------------------------
(* Paths and files *)

Dirs == {"", "./"}
Stems == {"song", "temp_waveform"}
Exts == {"mp3", "wav", "WAV"}

Paths == [dir : Dirs, stem : Stems, ext : Exts]

\* wav_path = "temp_waveform.wav"
TempWavPath == [dir |-> "", stem |-> "temp_waveform", ext |-> "wav"]

\* output_image_path = "waveform.svg"
OutputImage == [stem |-> "waveform", ext |-> "svg"]

\* The file a path names: "./x" and "x" name the same file; names are
\* case-sensitive.
FileOf(p) == [stem |-> p.stem, ext |-> p.ext]

\* str.lower() on the extension
Lower(e) == IF e = "WAV" THEN "wav" ELSE e

\* input_path.lower().endswith('.wav')
EndsWithWav(p) == Lower(p.ext) = "wav"

\* os.path.isfile / os.path.exists
Exists(p, files) == FileOf(p) \in files

----------------------------------------------------------------------------
(* Values held by audio_array, duration, frames *)

NoneArr == [src |-> "none", good |-> FALSE, len |-> 0]
NoneVal == [src |-> "none", good |-> FALSE]

CacheKinds == {"absent", "valid", "notpickle", "notdict", "no_audio_array",
               "no_duration", "no_frames", "badtype"}

\* Sample widths a WAV header can carry; pcm_s16le output is always 2.
HeaderWidths == {1, 2, 3, 4}
TranscodedWidth == 2

\* max_points=3000 passed by main
MainMaxPoints == 3000


----------------------------------------------------------------------------
(* Helpers of main *)

\* cache_path_for_file: None when file_hash returned None
cache_path_for_file_Always(h) == "key"
cache_path_for_file(h) == IF h = "None" THEN "None" ELSE "key"

\* `if not cache_hit:` selects the branch taken after the lookup
AfterLookup_AlwaysDecode(hit) == "convert"
AfterLookup(hit) == IF hit THEN "downsample" ELSE "convert"

\* process_audio_data: the if/elif chain on sampwidth; other widths exit
DtypeSupported_Fallback(w) == TRUE
DtypeSupported(w) == w \in {1, 2, 4}

\* `except Exception: pass` around os.remove: the outcome is left as it was
CleanupOutcome_Propagates(o, removeOk) == IF removeOk THEN o ELSE "exception"
CleanupOutcome(o, removeOk) == o

\* smooth_gradient_colors: [cmap(i / (n-1)) for i in range(n)]; the colormap
\* position of entry i is the rational i/(n-1). range(n) is empty for n <= 0;
\* for n = 1 the division 0 / 0 raises ZeroDivisionError.
smooth_gradient_colors(n) ==
    IF n <= 0 THEN [err |-> FALSE, colors |-> <<>>]
    ELSE IF n - 1 = 0 THEN [err |-> TRUE, colors |-> <<>>]
    ELSE [err |-> FALSE,
          colors |-> [k \in 1..n |-> [num |-> k - 1, den |-> n - 1]]]

----------------------------------------------------------------------------
(* main, from the input-exists check (line 276) on *)

DsIdle ==
    /\ ds_pc = "off" /\ ds_in = <<>> /\ ds_duration = [num |-> 0, den |-> 1]
    /\ ds_frames = 0 /\ ds_max_points = 0 /\ ds_factor = 0 /\ ds_kept = 0
    /\ ds_out = <<>> /\ ds_time = <<>>

PlIdle ==
    /\ pl_pc = "off" /\ pl_len = 0 /\ pl_colors = <<>> /\ pl_ranges = <<>>
    /\ pl_threads = <<>> /\ pl_log = <<>> /\ pl_started = {} /\ pl_joined = {}
    /\ pl_saved = FALSE

MainIdle ==
    /\ input_path = TempWavPath /\ wav_path = TempWavPath /\ cache_file = "None"
    /\ audio_array = NoneArr /\ duration = NoneVal /\ frames = NoneVal
    /\ cache_hit = FALSE /\ series = NoneArr /\ pc = "off" /\ outcome = "running"
    /\ fs = {} /\ cacheContent = "absent" /\ fs0 = {} /\ cache0 = "absent"
    /\ hist = <<>> /\ createdTemp = FALSE /\ removed = {}
    /\ entryAtLookup = "unread" /\ sampwidth = 0 /\ hashFailed = FALSE
    /\ writeFailed = FALSE /\ removeFailed = FALSE /\ fault = "none"
    /\ imageWritten = FALSE

\* State at line 280-285: the input exists; any other file may or may not.
MainInit ==
    /\ input_path \in Paths
    /\ wav_path = TempWavPath
    /\ cache_file = "None"
    /\ audio_array = NoneArr /\ duration = NoneVal /\ frames = NoneVal
    /\ cache_hit = FALSE /\ series = NoneArr
    /\ pc = "hash" /\ outcome = "running"
    /\ \E others \in SUBSET {FileOf(TempWavPath), OutputImage} :
          fs = {FileOf(input_path)} \cup others
    /\ cacheContent \in CacheKinds
    /\ fs0 = fs /\ cache0 = cacheContent
    /\ hist = <<>> /\ createdTemp = FALSE /\ removed = {}
    /\ entryAtLookup = "unread" /\ sampwidth = 0 /\ hashFailed = FALSE
    /\ writeFailed = FALSE /\ removeFailed = FALSE /\ fault = "none"
    /\ imageWritten = FALSE

\* line 282: cache_file = cache_path_for_file(input_path)
Hash ==
    /\ pc = "hash"
    /\ \E h \in {"None", "digest"} :
          /\ cache_file' = cache_path_for_file(h)
          /\ hashFailed' = (h = "None")
    /\ pc' = "lookup"
    /\ UNCHANGED <<input_path, wav_path, audio_array, duration, frames,
                   cache_hit, series, outcome, fs, cacheContent, fs0, cache0,
                   hist, createdTemp, removed, entryAtLookup, sampwidth,
                   writeFailed, removeFailed, fault, imageWritten>>
    /\ UNCHANGED <<dsVars, plVars>>

\* lines 289-300: no cache file, or no entry on disk
LookupNoEntry ==
    /\ pc = "lookup"
    /\ cache_file = "None" \/ cacheContent = "absent"
    /\ cache_hit' = FALSE
    /\ hist' = Append(hist, "lookup")
    /\ pc' = AfterLookup(FALSE)
    /\ UNCHANGED <<input_path, wav_path, cache_file, audio_array, duration,
                   frames, series, outcome, fs, cacheContent, fs0, cache0,
                   createdTemp, removed, entryAtLookup, sampwidth, hashFailed,
                   writeFailed, removeFailed, fault, imageWritten>>
    /\ UNCHANGED <<dsVars, plVars>>

\* lines 291-298 with an entry whose three values are what a run stored
LookupValid ==
    /\ pc = "lookup"
    /\ cache_file # "None" /\ cacheContent = "valid"
    /\ \E n \in 1..MaxFrames :
          audio_array' = [src |-> "cache", good |-> TRUE, len |-> n]
    /\ duration' = [src |-> "cache", good |-> TRUE]
    /\ frames' = [src |-> "cache", good |-> TRUE]
    /\ cache_hit' = TRUE
    /\ entryAtLookup' = cacheContent
    /\ hist' = Append(hist, "lookup")
    /\ pc' = AfterLookup(TRUE)
    /\ UNCHANGED <<input_path, wav_path, cache_file, series, outcome, fs,
                   cacheContent, fs0, cache0, createdTemp, removed, sampwidth,
                   hashFailed, writeFailed, removeFailed, fault, imageWritten>>
    /\ UNCHANGED <<dsVars, plVars>>

\* lines 291-300 with an entry on which pickle.load or a subscript raises:
\* the assignments before the raising statement have taken place.
LookupRaises ==
    /\ pc = "lookup"
    /\ cache_file # "None"
    /\ cacheContent \in {"notpickle", "notdict", "no_audio_array",
                         "no_duration", "no_frames"}
    /\ \E n \in 1..MaxFrames, ga \in BOOLEAN, gd \in BOOLEAN :
          /\ audio_array' =
                IF cacheContent \in {"no_duration", "no_frames"}
                THEN [src |-> "cache", good |-> ga, len |-> IF ga THEN n ELSE 0]
                ELSE audio_array
          /\ duration' =
                IF cacheContent = "no_frames"
                THEN [src |-> "cache", good |-> gd]
                ELSE duration
    /\ cache_hit' = FALSE
    /\ entryAtLookup' = cacheContent
    /\ hist' = Append(hist, "lookup")
    /\ pc' = AfterLookup(FALSE)
    /\ UNCHANGED <<input_path, wav_path, cache_file, frames, series, outcome,
                   fs, cacheContent, fs0, cache0, createdTemp, removed,
                   sampwidth, hashFailed, writeFailed, removeFailed, fault,
                   imageWritten>>
    /\ UNCHANGED <<dsVars, plVars>>

\* lines 291-298 with an entry that unpickles to a dict holding the three
\* keys, one of them with a value of the wrong type or shape: nothing raises.
LookupBadType ==
    /\ pc = "lookup"
    /\ cache_file # "None" /\ cacheContent = "badtype"
    /\ \E bad \in {"audio_array", "duration", "frames"}, n \in 1..MaxFrames :
          /\ audio_array' = [src |-> "cache", good |-> bad # "audio_array",
                             len |-> IF bad # "audio_array" THEN n ELSE 0]
          /\ duration' = [src |-> "cache", good |-> bad # "duration"]
          /\ frames' = [src |-> "cache", good |-> bad # "frames"]
    /\ cache_hit' = TRUE
    /\ entryAtLookup' = cacheContent
    /\ hist' = Append(hist, "lookup")
    /\ pc' = AfterLookup(TRUE)
    /\ UNCHANGED <<input_path, wav_path, cache_file, series, outcome, fs,
                   cacheContent, fs0, cache0, createdTemp, removed, sampwidth,
                   hashFailed, writeFailed, removeFailed, fault, imageWritten>>
    /\ UNCHANGED <<dsVars, plVars>>

\* lines 304-305: the input is decoded in place
UseInputAsWav ==
    /\ pc = "convert"
    /\ EndsWithWav(input_path)
    /\ wav_path' = input_path
    /\ pc' = "decode"
    /\ UNCHANGED <<input_path, cache_file, audio_array, duration, frames,
                   cache_hit, series, outcome, fs, cacheContent, fs0, cache0,
                   hist, createdTemp, removed, entryAtLookup, sampwidth,
                   hashFailed, writeFailed, removeFailed, fault, imageWritten>>
    /\ UNCHANGED <<dsVars, plVars>>

\* lines 306-308 and convert_to_wav_ffmpeg: ffmpeg -y writes wav_path; a
\* missing ffmpeg writes nothing; a failing ffmpeg may have written it.
ConvertToWav ==
    /\ pc = "convert"
    /\ ~EndsWithWav(input_path)
    /\ hist' = Append(hist, "transcode")
    /\ \E r \in {"ok", "missing", "failed"}, wrote \in BOOLEAN :
          /\ r = "ok" => wrote
          /\ r = "missing" => ~wrote
          /\ createdTemp' = wrote
          /\ fs' = IF wrote THEN fs \cup {FileOf(wav_path)} ELSE fs
          /\ IF r = "ok"
             THEN /\ pc' = "decode"
                  /\ UNCHANGED <<outcome, fault>>
             ELSE /\ pc' = "cleanup"
                  /\ outcome' = "exit1"
                  /\ fault' = IF r = "missing" THEN "ffmpeg_missing"
                                               ELSE "ffmpeg_failed"
    /\ UNCHANGED <<input_path, wav_path, cache_file, audio_array, duration,
                   frames, cache_hit, series, cacheContent, fs0, cache0,
                   removed, entryAtLookup, sampwidth, hashFailed, writeFailed,
                   removeFailed, imageWritten>>
    /\ UNCHANGED <<dsVars, plVars>>


\* line 311, process_audio_data: wave.open raises on a file that is no WAV
\* container (wave.Error, EOFError); the exception leaves main.
DecodeOpenRaises ==
    /\ pc = "decode"
    /\ hist' = Append(hist, "decode")
    /\ outcome' = "exception" /\ fault' = "decode_exc"
    /\ pc' = "cleanup"
    /\ UNCHANGED <<input_path, wav_path, cache_file, audio_array, duration,
                   frames, cache_hit, series, fs, cacheContent, fs0, cache0,
                   createdTemp, removed, entryAtLookup, sampwidth, hashFailed,
                   writeFailed, removeFailed, imageWritten>>
    /\ UNCHANGED <<dsVars, plVars>>

\* line 311, process_audio_data with a readable header. w: sample width,
\* n: number of frames read, reshapeOk: the data divides into `channels`
\* columns. Lines 102-110 exit on an unknown width, 123-125 exit on a failed
\* reshape, line 129 raises ValueError on an empty array.
DecodeHeaderRead ==
    /\ pc = "decode"
    /\ hist' = Append(hist, "decode")
    /\ \E w \in (IF wav_path = input_path THEN HeaderWidths ELSE {TranscodedWidth}),
          n \in 0..MaxFrames, reshapeOk \in BOOLEAN :
          /\ sampwidth' = w
          /\ IF ~DtypeSupported(w)
             THEN /\ outcome' = "exit1" /\ fault' = "width" /\ pc' = "cleanup"
                  /\ UNCHANGED <<audio_array, duration, frames>>
             ELSE IF ~reshapeOk
             THEN /\ outcome' = "exit1" /\ fault' = "stereo" /\ pc' = "cleanup"
                  /\ UNCHANGED <<audio_array, duration, frames>>
             ELSE IF n = 0
             THEN /\ outcome' = "exception" /\ fault' = "decode_exc"
                  /\ pc' = "cleanup"
                  /\ UNCHANGED <<audio_array, duration, frames>>
             ELSE /\ audio_array' = [src |-> "fresh", good |-> TRUE, len |-> n]
                  /\ duration' = [src |-> "fresh", good |-> TRUE]
                  /\ frames' = [src |-> "fresh", good |-> TRUE]
                  /\ pc' = "store"
                  /\ UNCHANGED <<outcome, fault>>
    /\ UNCHANGED <<input_path, wav_path, cache_file, cache_hit, series, fs,
                   cacheContent, fs0, cache0, createdTemp, removed,
                   entryAtLookup, hashFailed, writeFailed, removeFailed,
                   imageWritten>>
    /\ UNCHANGED <<dsVars, plVars>>

\* line 314 with cache_file None: nothing is stored
StoreSkipped ==
    /\ pc = "store"
    /\ cache_file = "None"
    /\ pc' = "downsample"
    /\ UNCHANGED <<input_path, wav_path, cache_file, audio_array, duration,
                   frames, cache_hit, series, outcome, fs, cacheContent, fs0,
                   cache0, hist, createdTemp, removed, entryAtLookup,
                   sampwidth, hashFailed, writeFailed, removeFailed, fault,
                   imageWritten>>
    /\ UNCHANGED <<dsVars, plVars>>

\* lines 315-324: open(cache_file, "wb") may raise (entry untouched);
\* pickle.dump may raise after the open truncated the entry (what is left
\* does not unpickle); both are swallowed by `except Exception`.
Store ==
    /\ pc = "store"
    /\ cache_file # "None"
    /\ hist' = Append(hist, "store")
    /\ \E w \in {"ok", "open_raises", "dump_raises"} :
          /\ cacheContent' = CASE w = "ok" -> "valid"
                               [] w = "open_raises" -> cacheContent
                               [] w = "dump_raises" -> "notpickle"
          /\ writeFailed' = (w # "ok")
    /\ pc' = "downsample"
    /\ UNCHANGED <<input_path, wav_path, cache_file, audio_array, duration,
                   frames, cache_hit, series, outcome, fs, fs0, cache0,
                   createdTemp, removed, entryAtLookup, sampwidth, hashFailed,
                   removeFailed, fault, imageWritten>>
    /\ UNCHANGED <<dsVars, plVars>>

\* line 327, downsample_audio(audio_array, duration, frames, max_points=3000):
\* len(audio_array) and np.linspace(0, duration, ...) are always evaluated,
\* frames only when the array is longer than max_points. With a value of the
\* wrong type the call raises or returns a series built from it.
Downsample ==
    /\ pc = "downsample"
    /\ hist' = Append(hist, "downsample")
    /\ LET usedGood == /\ audio_array.good /\ duration.good
                       /\ (audio_array.len > MainMaxPoints => frames.good)
           outLen == IF audio_array.len > MainMaxPoints THEN MainMaxPoints
                                                        ELSE audio_array.len
       IN \E raises \in BOOLEAN :
             /\ raises => ~usedGood
             /\ IF raises
                THEN /\ outcome' = "exception" /\ fault' = "downsample_exc"
                     /\ pc' = "cleanup"
                     /\ UNCHANGED series
                ELSE /\ series' = [src |-> audio_array.src, good |-> usedGood,
                                   len |-> outLen]
                     /\ pc' = "render"
                     /\ UNCHANGED <<outcome, fault>>
    /\ UNCHANGED <<input_path, wav_path, cache_file, audio_array, duration,
                   frames, cache_hit, fs, cacheContent, fs0, cache0,
                   createdTemp, removed, entryAtLookup, sampwidth, hashFailed,
                   writeFailed, removeFailed, imageWritten>>
    /\ UNCHANGED <<dsVars, plVars>>

\* lines 330-332, plot_waveform: N = len(audio_array) - 1 segments; line 159
\* raises when smooth_gradient_colors does; savefig may raise; a series built
\* from a value of the wrong type raises somewhere or is drawn as it is.
Render ==
    /\ pc = "render"
    /\ hist' = Append(hist, "render")
    /\ \E r \in {"ok", "raises"} :
          /\ (series.good /\ smooth_gradient_colors(series.len - 1).err)
                => r = "raises"
          /\ IF r = "ok"
             THEN /\ imageWritten' = TRUE
                  /\ fs' = fs \cup {OutputImage}
                  /\ outcome' = "success"
                  /\ UNCHANGED fault
             ELSE /\ outcome' = "exception" /\ fault' = "render_exc"
                  /\ UNCHANGED <<imageWritten, fs>>
    /\ pc' = "cleanup"
    /\ UNCHANGED <<input_path, wav_path, cache_file, audio_array, duration,
                   frames, cache_hit, series, cacheContent, fs0, cache0,
                   createdTemp, removed, entryAtLookup, sampwidth, hashFailed,
                   writeFailed, removeFailed>>
    /\ UNCHANGED <<dsVars, plVars>>

\* lines 333-339, the finally block
Cleanup ==
    /\ pc = "cleanup"
    /\ hist' = Append(hist, "cleanup")
    /\ IF wav_path # input_path /\ Exists(wav_path, fs)
       THEN \E removeOk \in BOOLEAN :
               /\ fs' = IF removeOk THEN fs \ {FileOf(wav_path)} ELSE fs
               /\ removed' = IF removeOk THEN removed \cup {FileOf(wav_path)}
                                         ELSE removed
               /\ removeFailed' = ~removeOk
               /\ outcome' = CleanupOutcome(outcome, removeOk)
       ELSE /\ outcome' = CleanupOutcome(outcome, TRUE)
            /\ UNCHANGED <<fs, removed, removeFailed>>
    /\ pc' = "done"
    /\ UNCHANGED <<input_path, wav_path, cache_file, audio_array, duration,
                   frames, cache_hit, series, cacheContent, fs0, cache0,
                   createdTemp, entryAtLookup, sampwidth, hashFailed,
                   writeFailed, fault, imageWritten>>
    /\ UNCHANGED <<dsVars, plVars>>

Init == MainInit /\ DsIdle /\ PlIdle

Next ==
    \/ Hash
    \/ LookupNoEntry
    \/ LookupValid
    \/ LookupRaises
    \/ LookupBadType
    \/ UseInputAsWav
    \/ ConvertToWav
    \/ DecodeOpenRaises
    \/ DecodeHeaderRead
    \/ StoreSkipped
    \/ Store
    \/ Downsample
    \/ Render
    \/ Cleanup

Spec == Init /\ [][Next]_vars


----------------------------------------------------------------------------
(* Properties of main *)

Has(step) == \E i \in 1..Len(hist) : hist[i] = step

\* index of the first occurrence of a step, 0 if there is none
Pos(step) == IF Has(step)
             THEN CHOOSE i \in 1..Len(hist) :
                     /\ hist[i] = step
                     /\ \A j \in 1..(i - 1) : hist[j] # step
             ELSE 0

Count(step) == Cardinality({i \in 1..Len(hist) : hist[i] = step})

CorruptKinds == CacheKinds \ {"absent", "valid"}

\* C1: when the run ends, the file named as input still exists, and the
\* cleanup step has removed nothing except a temp_waveform.wav written by the
\* transcoder of this run.
C1_CleanupRemovesOnlyOwnTemp ==
    pc = "done" =>
        /\ FileOf(input_path) \in fs
        /\ removed \subseteq (IF createdTemp THEN {FileOf(TempWavPath)} ELSE {})

\* C2: a cache entry that is corrupt, truncated or incompatible is a miss:
\* the lookup does not report a hit, and downsample and render work on
\* freshly decoded values only.
C2_CorruptEntryIsMiss ==
    entryAtLookup \in CorruptKinds =>
        /\ ~cache_hit
        /\ pc \in {"downsample", "render"} =>
              /\ audio_array.src = "fresh"
              /\ duration.src = "fresh"
              /\ frames.src = "fresh"
        /\ series.src \in {"none", "fresh"}
        /\ fault # "downsample_exc"

\* C3: a failed fingerprint or a failed cache write does not abort the run:
\* the run ends in success exactly when no other step failed, having decoded,
\* downsampled and rendered; with a failed fingerprint no entry is read or
\* written, with a failed write no valid entry is left.
C3_CacheFailureNotFatal ==
    (hashFailed \/ writeFailed) =>
        /\ hashFailed =>
              /\ cache_file = "None"
              /\ entryAtLookup = "unread"
              /\ ~cache_hit
              /\ cacheContent = cache0
              /\ ~Has("store")
        /\ writeFailed =>
              /\ cacheContent # "valid"
              /\ outcome # "exit1"
              /\ pc \in {"downsample", "render", "cleanup", "done"}
        /\ outcome = "running" => pc \notin {"cleanup", "done"}
        /\ pc = "done" =>
              /\ outcome = "success" <=> fault = "none"
              /\ fault = "none" =>
                    /\ Has("decode") /\ Has("downsample") /\ Has("render")
                    /\ imageWritten

C3_Witness ==
    /\ pc = "done" /\ hashFailed /\ outcome = "success" /\ imageWritten

\* C6: a sample width other than 1, 2 or 4 ends the run with exit status 1
\* and nothing produced: no cache write, no downsample, no render, no image,
\* no decoded samples.
C6_UnsupportedWidthFatal ==
    sampwidth \notin {0, 1, 2, 4} =>
        /\ outcome = "exit1" /\ fault = "width"
        /\ pc \in {"cleanup", "done"}
        /\ cacheContent = cache0
        /\ ~Has("store") /\ ~Has("downsample") /\ ~Has("render")
        /\ ~imageWritten
        /\ audio_array.src # "fresh"

C6_Witness == pc = "done" /\ sampwidth = 3 /\ cache_file # "None"

\* C7: the run ends only from the cleanup step, every failure leads to the
\* cleanup step, and the cleanup step leaves the outcome as it found it
\* whether or not the removal succeeds.
C7_CleanupOnEveryExit ==
    [][ /\ (pc # "done" /\ pc' = "done") => (pc = "cleanup" /\ hist' # hist)
        /\ (outcome = "running" /\ outcome' # "running") => pc' = "cleanup"
        /\ pc = "cleanup" => (outcome # "running" /\ outcome' = outcome) ]_vars

C7_Witness == pc = "done" /\ removeFailed /\ fault = "ffmpeg_failed"

\* C8: order of the steps. Hit: lookup is directly followed by downsample,
\* with no transcode, decode or store and the entry untouched. Miss: decode
\* precedes store, both precede downsample, and a transcode precedes decode
\* exactly when the input does not end in .wav. Render follows downsample;
\* cleanup is last and follows render or a failure.
C8_StepOrder ==
    /\ \A st \in {"lookup", "transcode", "decode", "store", "downsample",
                  "render", "cleanup"} : Count(st) <= 1
    /\ cache_hit =>
          /\ ~Has("transcode") /\ ~Has("decode") /\ ~Has("store")
          /\ cacheContent = cache0
          /\ Has("downsample") => Pos("downsample") = Pos("lookup") + 1
    /\ Has("transcode") => ~EndsWithWav(input_path)
    /\ Has("decode") =>
          /\ Has("lookup") /\ Pos("lookup") < Pos("decode")
          /\ Has("transcode") <=> ~EndsWithWav(input_path)
          /\ Has("transcode") => Pos("transcode") < Pos("decode")
    /\ Has("store") => (Has("decode") /\ Pos("decode") < Pos("store"))
    /\ (Has("downsample") /\ ~cache_hit) =>
          /\ Has("decode") /\ Pos("decode") < Pos("downsample")
          /\ Has("store") <=> cache_file # "None"
          /\ Has("store") => Pos("store") < Pos("downsample")
    /\ Has("render") => (Has("downsample") /\ Pos("downsample") < Pos("render"))
    /\ Has("cleanup") =>
          /\ Pos("cleanup") = Len(hist)
          /\ Has("render") \/ outcome \in {"exit1", "exception"}

C8_Witness == pc = "done" /\ cache_hit /\ outcome = "success" /\ cache0 = "valid"


----------------------------------------------------------------------------
(* downsample_audio *)

\* Amplitudes and times are rationals [num, den]; decoded samples have den 1.
SampleValues == {-1, 0, 1}
Rat(n, d) == [num |-> n, den |-> d]

RECURSIVE SumNum(_)
SumNum(row) == IF row = <<>> THEN 0 ELSE Head(row).num + SumNum(Tail(row))

\* len(audio_array) > max_points
NeedsReduction(len, max_points) == len > max_points

\* the slice bound factor*max_points of audio_array[:factor*max_points]
KeptLength_ModFactor(len, factor, max_points) == len - (len % factor)
KeptLength(len, factor, max_points) == factor * max_points

\* a[:k]
Slice(a, k) == SubSeq(a, 1, IF k < Len(a) THEN k ELSE Len(a))

\* a.reshape(-1, factor): rows of `factor` consecutive elements
Reshape_Transposed(a, factor) ==
    [r \in 1..factor |->
        SubSeq(a, (r - 1) * (Len(a) \div factor) + 1, r * (Len(a) \div factor))]
Reshape(a, factor) ==
    [r \in 1..(Len(a) \div factor) |->
        SubSeq(a, (r - 1) * factor + 1, r * factor)]

\* .mean(axis=1) of rows of samples with den 1
MeanRows(rows) ==
    [r \in 1..Len(rows) |-> Rat(SumNum(rows[r]), Len(rows[r]))]

\* np.linspace(0, stop, num=n): n evenly spaced points, both ends included;
\* a single point is the start
linspace(stop, n) ==
    [k \in 1..n |-> IF n = 1 THEN Rat(0, 1)
                    ELSE Rat(stop.num * (k - 1), stop.den * (n - 1))]

\* lines 137-142
downsample_audio(a, dur, fr, max_points) ==
    IF NeedsReduction(Len(a), max_points)
    THEN LET factor == Len(a) \div max_points
             kept == Slice(a, KeptLength(Len(a), factor, max_points))
             reduced == MeanRows(Reshape(kept, factor))
             adjusted == Rat(dur.num * Len(reduced), dur.den * fr)
         IN [factor |-> factor, kept |-> Len(kept), audio_array |-> reduced,
             time_axis |-> linspace(adjusted, Len(reduced))]
    ELSE [factor |-> 0, kept |-> Len(a), audio_array |-> a,
          time_axis |-> linspace(dur, Len(a))]

SeqsUpTo(S, n) == UNION {[1..k -> S] : k \in 1..n}

\* Arguments: 1..MaxLen samples, the frame count is at least the number of
\* samples, the duration is frames / rate.
InitDown ==
    /\ MainIdle /\ PlIdle
    /\ ds_pc = "call"
    /\ \E a \in SeqsUpTo(SampleValues, MaxLen) :
          ds_in = [k \in 1..Len(a) |-> Rat(a[k], 1)]
    /\ ds_frames \in {Len(ds_in), Len(ds_in) + 1}
    /\ \E rate \in {1, 2} : ds_duration = Rat(ds_frames, rate)
    /\ ds_max_points \in 1..MaxPoints
    /\ ds_factor = 0 /\ ds_kept = 0 /\ ds_out = <<>> /\ ds_time = <<>>

DownsampleCall ==
    /\ ds_pc = "call"
    /\ LET r == downsample_audio(ds_in, ds_duration, ds_frames, ds_max_points)
       IN /\ ds_out' = r.audio_array
          /\ ds_time' = r.time_axis
          /\ ds_factor' = r.factor
          /\ ds_kept' = r.kept
    /\ ds_pc' = "returned"
    /\ UNCHANGED <<ds_in, ds_duration, ds_frames, ds_max_points>>
    /\ UNCHANGED <<mainVars, plVars>>

NextDown == DownsampleCall

SpecDown == InitDown /\ [][NextDown]_vars

\* C4: the amplitudes and the time axis returned have the same length, at
\* most max_points, and a sequence no longer than max_points is returned
\* unchanged.
C4_LengthBounded ==
    ds_pc = "returned" =>
        /\ Len(ds_out) = Len(ds_time)
        /\ Len(ds_out) <= ds_max_points
        /\ Len(ds_in) <= ds_max_points => ds_out = ds_in

C4_Witness ==
    /\ ds_pc = "returned" /\ Len(ds_in) > ds_max_points
    /\ Len(ds_in) % ds_max_points # 0 /\ ds_max_points > 1

\* the mean of samples lo..hi of the input
BlockMean(lo, hi) == Rat(SumNum(SubSeq(ds_in, lo, hi)), hi - lo + 1)

\* C5 as stated: for L > M the factor is f = L // M, exactly L mod f trailing
\* samples are dropped and the output has L // (L // M) block means.
C5_DropsLModF ==
    (ds_pc = "returned" /\ Len(ds_in) > ds_max_points) =>
        /\ ds_factor = Len(ds_in) \div ds_max_points
        /\ Len(ds_in) - ds_kept = Len(ds_in) % ds_factor
        /\ Len(ds_out) = Len(ds_in) \div ds_factor
        /\ \A k \in 1..Len(ds_out) :
              ds_out[k] = BlockMean((k - 1) * ds_factor + 1, k * ds_factor)

\* C5 amended: for L > M the factor is f = L // M, exactly L - f*M (that is,
\* L mod M) trailing samples are dropped, and the output has exactly M
\* entries, entry k being the mean of the k-th block of f samples.
C5_DropsLModM ==
    (ds_pc = "returned" /\ Len(ds_in) > ds_max_points) =>
        /\ ds_factor = Len(ds_in) \div ds_max_points
        /\ Len(ds_in) - ds_kept = Len(ds_in) % ds_max_points
        /\ ds_kept = ds_factor * ds_max_points
        /\ Len(ds_out) = ds_max_points
        /\ \A k \in 1..ds_max_points :
              ds_out[k] = BlockMean((k - 1) * ds_factor + 1, k * ds_factor)

C5_Witness ==
    /\ ds_pc = "returned" /\ Len(ds_in) = 5 /\ ds_max_points = 3
    /\ ds_kept = 3 /\ Len(ds_out) = 3


----------------------------------------------------------------------------
(* plot_waveform *)

\* `4 if N > 4000 else 1`
Threshold == 4000
Workers == 4

\* the calling thread; workers are numbered from 1
Caller == 0

\* N = len(audio_array) - 1
N == pl_len - 1

\* line 230
num_threads(n) == IF n > Threshold THEN Workers ELSE 1

\* line 232
chunk_size(n) == n \div num_threads(n)

\* lines 244-245, for worker t in 0..num_threads-1: <<start, end>>, the
\* worker draws segments start..end-1
WorkerRange(n, t) ==
    <<t * chunk_size(n),
      IF t = num_threads(n) - 1 THEN n ELSE (t + 1) * chunk_size(n)>>

\* Series lengths: 1..MaxSmallN+1 points, and lengths around the threshold.
PlotLengths ==
    (1..(MaxSmallN + 1)) \cup ((Threshold + 1)..(Threshold + 1 + MaxOver))

InitPlot ==
    /\ MainIdle /\ DsIdle
    /\ pl_pc = "gradient"
    /\ pl_len \in PlotLengths
    /\ pl_colors = <<>> /\ pl_ranges = <<>> /\ pl_threads = <<>>
    /\ pl_log = <<>> /\ pl_started = {} /\ pl_joined = {} /\ pl_saved = FALSE

\* lines 158-159: colors = smooth_gradient_colors(N); a ZeroDivisionError
\* leaves plot_waveform
PlotGradient ==
    /\ pl_pc = "gradient"
    /\ LET r == smooth_gradient_colors(N)
       IN IF r.err
          THEN /\ pl_pc' = "raised"
               /\ UNCHANGED pl_colors
          ELSE /\ pl_pc' = "single"
               /\ pl_colors' = r.colors
    /\ UNCHANGED <<pl_len, pl_ranges, pl_threads, pl_log, pl_started,
                   pl_joined, pl_saved>>
    /\ UNCHANGED <<mainVars, dsVars>>

\* lines 235-240: shadow, glow, highlight and inner edge over 0..N-1, drawn
\* by the caller
PlotSinglePasses ==
    /\ pl_pc = "single"
    /\ pl_log' = pl_log \o
          [k \in 1..4 |->
              [by |-> Caller,
               pass |-> <<"shadow", "glow", "highlight", "inner_edge">>[k],
               start |-> 0, end |-> N]]
    /\ pl_pc' = "create"
    /\ UNCHANGED <<pl_len, pl_colors, pl_ranges, pl_threads, pl_started,
                   pl_joined, pl_saved>>
    /\ UNCHANGED <<mainVars, dsVars>>

\* lines 243-246: one Thread object per range, none started yet
PlotCreateThreads ==
    /\ pl_pc = "create"
    /\ pl_ranges' = [k \in 1..num_threads(N) |-> WorkerRange(N, k - 1)]
    /\ pl_threads' = [k \in 1..num_threads(N) |-> "created"]
    /\ pl_pc' = "start"
    /\ UNCHANGED <<pl_len, pl_colors, pl_log, pl_started, pl_joined, pl_saved>>
    /\ UNCHANGED <<mainVars, dsVars>>

\* lines 247-248: the caller starts the threads in list order
PlotStart ==
    /\ pl_pc = "start"
    /\ LET t == Cardinality(pl_started) + 1
       IN /\ t <= Len(pl_threads)
          /\ pl_threads' = [pl_threads EXCEPT ![t] = "running"]
          /\ pl_started' = pl_started \cup {t}
          /\ pl_pc' = IF t = Len(pl_threads) THEN "join" ELSE "start"
    /\ UNCHANGED <<pl_len, pl_colors, pl_ranges, pl_log, pl_joined, pl_saved>>
    /\ UNCHANGED <<mainVars, dsVars>>

\* plot_segments(start, end) run by worker t: the main line over its range
PlotWorker(t) ==
    /\ pl_pc \in {"start", "join"}
    /\ t \in 1..Len(pl_threads)
    /\ pl_threads[t] = "running"
    /\ pl_log' = Append(pl_log, [by |-> t, pass |-> "main",
                                 start |-> pl_ranges[t][1],
                                 end |-> pl_ranges[t][2]])
    /\ pl_threads' = [pl_threads EXCEPT ![t] = "finished"]
    /\ UNCHANGED <<pl_pc, pl_len, pl_colors, pl_ranges, pl_started, pl_joined,
                   pl_saved>>
    /\ UNCHANGED <<mainVars, dsVars>>

PlotWorkers == \E t \in 1..Workers : PlotWorker(t)

\* lines 249-250: the caller joins the threads in list order; join returns
\* once the thread has finished
PlotJoin ==
    /\ pl_pc = "join"
    /\ LET t == Cardinality(pl_joined) + 1
       IN /\ t <= Len(pl_threads)
          /\ pl_threads[t] = "finished"
          /\ pl_joined' = pl_joined \cup {t}
          /\ pl_pc' = IF t = Len(pl_threads) THEN "save" ELSE "join"
    /\ UNCHANGED <<pl_len, pl_colors, pl_ranges, pl_threads, pl_log,
                   pl_started, pl_saved>>
    /\ UNCHANGED <<mainVars, dsVars>>

\* lines 252-257: savefig
PlotSave ==
    /\ pl_pc = "save"
    /\ pl_saved' = TRUE
    /\ pl_pc' = "done"
    /\ UNCHANGED <<pl_len, pl_colors, pl_ranges, pl_threads, pl_log,
                   pl_started, pl_joined>>
    /\ UNCHANGED <<mainVars, dsVars>>

NextPlot ==
    \/ PlotGradient
    \/ PlotSinglePasses
    \/ PlotCreateThreads
    \/ PlotStart
    \/ PlotWorkers
    \/ PlotJoin
    \/ PlotSave

SpecPlot == InitPlot /\ [][NextPlot]_vars

\* number of worker ranges that contain segment index i
CoveredBy(i) ==
    Cardinality({t \in 1..Len(pl_ranges) :
                    pl_ranges[t][1] <= i /\ i < pl_ranges[t][2]})

RangesPartition ==
    /\ Len(pl_ranges) = (IF N <= Threshold THEN 1 ELSE Workers)
    /\ pl_ranges[1][1] = 0
    /\ pl_ranges[Len(pl_ranges)][2] = N
    /\ \A t \in 1..(Len(pl_ranges) - 1) : pl_ranges[t][2] = pl_ranges[t + 1][1]
    /\ \A t \in 1..Len(pl_ranges) : pl_ranges[t][1] <= pl_ranges[t][2]
    /\ \A i \in 0..(N - 1) : CoveredBy(i) = 1

SinglePassesByCallerFirst ==
    /\ \A k \in 1..Len(pl_log) :
          pl_log[k].pass # "main" <=> pl_log[k].by = Caller
    /\ pl_started # {} =>
          /\ Len(pl_log) >= 4
          /\ \A k \in 1..4 : pl_log[k].by = Caller
                             /\ pl_log[k].start = 0 /\ pl_log[k].end = N
          /\ {pl_log[k].pass : k \in 1..4} =
                {"shadow", "glow", "highlight", "inner_edge"}

JoinedBeforeSave ==
    pl_saved =>
        /\ pl_joined = 1..Len(pl_threads)
        /\ \A t \in 1..Len(pl_threads) : pl_threads[t] = "finished"
        /\ \A t \in 1..Len(pl_threads) :
              Cardinality({k \in 1..Len(pl_log) : pl_log[k].by = t}) = 1

\* C9: for every segment count N >= 1, plot_waveform hands its workers
\* contiguous disjoint ranges covering 0..N-1 exactly once (one worker up to
\* the threshold, four above), joins every worker before saving, and has the
\* caller draw the other four passes before any worker starts.
C9_WorkersPartitionSegments ==
    (N >= 1 /\ pl_pc \in {"done", "raised"}) =>
        /\ RangesPartition
        /\ SinglePassesByCallerFirst
        /\ JoinedBeforeSave
        /\ pl_saved

\* The same statement for the calls in which the gradient is computed
\* (N # 1): it holds from the creation of the threads on.
C9_HoldsWhenGradientComputed ==
    (N >= 1 /\ pl_pc \in {"start", "join", "save", "done"}) =>
        /\ RangesPartition
        /\ SinglePassesByCallerFirst
        /\ JoinedBeforeSave
        /\ pl_pc = "done" => pl_saved

\* C10: for every series with at least one segment the gradient is computed
\* without error and has one position per segment, each in [0, 1], growing
\* linearly with the segment index.
C10_GradientPerSegment ==
    (N >= 1 /\ pl_pc # "gradient") =>
        /\ pl_pc # "raised"
        /\ Len(pl_colors) = N
        /\ \A k \in 1..Len(pl_colors) :
              /\ pl_colors[k].den > 0
              /\ 0 <= pl_colors[k].num /\ pl_colors[k].num <= pl_colors[k].den
              /\ pl_colors[k].num = k - 1
              /\ pl_colors[k].den = pl_colors[1].den

====
